---- MODULE Spec2Model ----
(***************************************************************************)
(* FinSync Pro (src/app.py): a Streamlit script that extracts the text of  *)
(* an uploaded bank statement, asks a text-generation model for a JSON     *)
(* array of transactions, shows them in an editable grid and derives a     *)
(* settlement between two parties.                                         *)
(*                                                                         *)
(* Execution model.  Streamlit runs the script top to bottom once when the *)
(* page opens and again after every widget interaction; nothing in the     *)
(* script is cached and nothing is kept in session state, so each run      *)
(* extracts the text and calls the model anew.  Every action below is one  *)
(* interaction followed by the complete run it triggers.  Widget values    *)
(* (key, toggle, upload, grid edits, slider) are the only state that       *)
(* survives from one run to the next; a run that ends normally forgets the *)
(* widgets it did not draw, a run cut short by an exception does not.      *)
(*                                                                         *)
(* Line 122 reads "if not uploaded_file := st.file_uploader(...)", which   *)
(* Python rejects; it is modelled as the assignment and test it intends.   *)
(*                                                                         *)
(* Amounts are Python floats (IEEE-754 binary64).  They are modelled       *)
(* exactly: a float is a 53-bit significand held as a multi-limb natural   *)
(* and a binary exponent, and every arithmetic step rounds to nearest,     *)
(* ties to even, as the interpreter does.  Amounts in the model are        *)
(* non-negative.  Text is a sequence of tokens: whitespace, code fences,   *)
(* one payload, or a message.                                              *)
(***************************************************************************)
EXTENDS Integers, Sequences

(* ---------------- multi-limb naturals (least significant limb first) --- *)
LimbBits == 14
Base == 2^LimbBits
MantBits == 53
DivGuardBits == 70

Pow2(k) == 2^k

Limb(n, i) == IF i >= 1 /\ i <= Len(n) THEN n[i] ELSE 0

RECURSIVE BNorm(_)
BNorm(n) ==
    IF n = <<>> THEN <<>>
    ELSE IF n[Len(n)] = 0 THEN BNorm(SubSeq(n, 1, Len(n) - 1)) ELSE n

RECURSIVE BFromInt(_)
BFromInt(x) == IF x = 0 THEN <<>> ELSE <<x % Base>> \o BFromInt(x \div Base)

RECURSIVE BAddFrom(_, _, _, _)
BAddFrom(a, b, i, c) ==
    IF i > Len(a) /\ i > Len(b)
    THEN (IF c = 0 THEN <<>> ELSE <<c>>)
    ELSE LET s == Limb(a, i) + Limb(b, i) + c
         IN  <<s % Base>> \o BAddFrom(a, b, i + 1, s \div Base)

BAdd(a, b) == BAddFrom(a, b, 1, 0)

RECURSIVE BSubFrom(_, _, _, _)
BSubFrom(a, b, i, br) ==
    IF i > Len(a) THEN <<>>
    ELSE LET d == Limb(a, i) - Limb(b, i) - br
         IN  <<IF d < 0 THEN d + Base ELSE d>>
                 \o BSubFrom(a, b, i + 1, IF d < 0 THEN 1 ELSE 0)

BSub(a, b) == BNorm(BSubFrom(a, b, 1, 0))

RECURSIVE ColSum(_, _, _, _)
ColSum(a, b, k, i) ==
    IF i > k THEN 0
    ELSE Limb(a, i) * Limb(b, k + 1 - i) + ColSum(a, b, k, i + 1)

RECURSIVE BMulFrom(_, _, _, _)
BMulCol(a, b, k, s) == <<s % Base>> \o BMulFrom(a, b, k + 1, s \div Base)
BMulFrom(a, b, k, c) ==
    IF k > Len(a) + Len(b) THEN <<>>
    ELSE BMulCol(a, b, k, ColSum(a, b, k, 1) + c)

BMul(a, b) == BNorm(BMulFrom(a, b, 1, 0))

BitLen(n) ==
    IF n = <<>> THEN 0
    ELSE LimbBits * (Len(n) - 1)
           + (CHOOSE k \in 1..LimbBits :
                 Pow2(k - 1) <= n[Len(n)] /\ n[Len(n)] < Pow2(k))

BBit(n, i) == (Limb(n, (i \div LimbBits) + 1) \div Pow2(i % LimbBits)) % 2

BShr(n, k) ==
    LET q == k \div LimbBits
        r == k % LimbBits
    IN  IF Len(n) <= q THEN <<>>
        ELSE BNorm([j \in 1..(Len(n) - q) |->
                      (Limb(n, j + q) \div Pow2(r))
                        + (Limb(n, j + q + 1) % Pow2(r)) * Pow2(LimbBits - r)])

BShl(n, k) ==
    LET q == k \div LimbBits
        r == k % LimbBits
    IN  IF n = <<>> THEN <<>>
        ELSE BNorm([j \in 1..(Len(n) + q + 1) |->
                      ((Limb(n, j - q) % Pow2(LimbBits - r)) * Pow2(r))
                        + (Limb(n, j - q - 1) \div Pow2(LimbBits - r))])

BLowNonzero(n, k) == BShl(BShr(n, k), k) # n

(* Long division of n by a small d, most significant limb first.           *)
RECURSIVE BDivSmall(_, _, _, _)
BDivLimb(rest, digit) == [q |-> Append(rest.q, digit), r |-> rest.r]
BDivStep(n, d, i, cur) == BDivLimb(BDivSmall(n, d, i - 1, cur % d), cur \div d)
BDivSmall(n, d, i, rem) ==
    IF i = 0 THEN [q |-> <<>>, r |-> rem]
    ELSE BDivStep(n, d, i, rem * Base + n[i])

(* ---------------- binary64 values: m * 2^e, m of exactly 53 bits ------- *)
FZero == [m |-> <<>>, e |-> 0]

(* Round n * 2^e to 53 bits, nearest, ties to even; sticky says that a     *)
(* non-zero fraction below the last bit of n was already discarded.        *)
FRoundCarry(m1, e) ==
    IF BitLen(m1) > MantBits
    THEN [m |-> BShr(m1, 1), e |-> e + 1]
    ELSE [m |-> m1, e |-> e]

FRoundKept(kept, e, guard, st) ==
    FRoundCarry(IF guard = 1 /\ (st \/ BBit(kept, 0) = 1)
                THEN BAdd(kept, <<1>>) ELSE kept, e)

FRoundDrop(n, e, sticky, d) ==
    FRoundKept(BShr(n, d), e + d, BBit(n, d - 1),
               sticky \/ (d >= 2 /\ BLowNonzero(n, d - 1)))

FRoundLen(n, e, sticky, L) ==
    IF L <= MantBits
    THEN [m |-> BShl(n, MantBits - L), e |-> e - (MantBits - L)]
    ELSE FRoundDrop(n, e, sticky, L - MantBits)

FRound(n, e, sticky) ==
    IF n = <<>> THEN FZero ELSE FRoundLen(n, e, sticky, BitLen(n))

FMul(a, b) ==
    IF a = FZero \/ b = FZero THEN FZero
    ELSE FRound(BMul(a.m, b.m), a.e + b.e, FALSE)

FAdd(a, b) ==
    IF a = FZero THEN b
    ELSE IF b = FZero THEN a
    ELSE LET emin == IF a.e < b.e THEN a.e ELSE b.e
         IN  FRound(BAdd(BShl(a.m, a.e - emin), BShl(b.m, b.e - emin)),
                    emin, FALSE)

FSub(a, b) ==
    IF b = FZero THEN a
    ELSE LET emin == IF a.e < b.e THEN a.e ELSE b.e
         IN  FRound(BSub(BShl(a.m, a.e - emin), BShl(b.m, b.e - emin)),
                    emin, FALSE)

FDivQuot(dm) == FRound(BNorm(dm.q), 0 - DivGuardBits, dm.r # 0)
FDivNum(n, d) == FDivQuot(BDivSmall(n, d, Len(n), 0))
FDivInt(c, d) ==
    IF c = 0 THEN FZero ELSE FDivNum(BShl(BFromInt(c), DivGuardBits), d)

(* ---------------- bounds and input domains ----------------------------- *)
MaxRows == 1
MaxCalls == 2

MinTextLen == 50
DefaultSplit == 50

NoFile == [present |-> FALSE, pages |-> <<>>]
Docs == {[present |-> TRUE, pages |-> p] : p \in {<<0>>, <<48>>, <<24, 24>>}}
ApiKeys == {"", "key"}
SplitChoices == {0, 10, 50}
EditCents == {25}
Kinds == {"Shared", "Private"}

(* Records as the model writes them: amount is a decimal literal given in  *)
(* hundredths, a string that is not a number, or absent; type is a string  *)
(* or absent.                                                              *)
Rec(k, c, ty) == [amount |-> [k |-> k, c |-> c], type |-> ty]
GoodShared == Rec("num", 1, "Shared")
GoodPrivate == Rec("num", 50, "Private")
NoType == Rec("num", 150, "missing")
NoAmount == Rec("missing", 0, "Other")
TextAmount == Rec("text", 0, "Private")

NoPayload == [t |-> "none", recs |-> <<>>]
Array(recs) == [t |-> "array", recs |-> recs]
Scalar(ty) == [t |-> ty, recs |-> <<>>]
Object(r) == [t |-> "object", recs |-> <<r>>]

Tok(s) == [tok |-> s, p |-> NoPayload]
PTok(p) == [tok |-> "payload", p |-> p]
Bare(p) == <<PTok(p)>>
Fenced(p) == <<Tok("fence_json"), Tok("ws"), PTok(p), Tok("ws"), Tok("fence")>>

(* What the model may answer: prose, JSON that is not an array (null, a    *)
(* non-zero number, a single object), arrays with and without the code     *)
(* fence, arrays with defective records.  The prompt of lines 80-96 does   *)
(* not constrain the answer and is not represented.                        *)
ModelTexts ==
    { Bare(Scalar("prose")), Bare(Scalar("null")), Bare(Scalar("number")),
      Bare(Object(GoodPrivate)),
      Bare(Array(<<>>)),
      Fenced(Array(<<GoodShared, GoodPrivate>>)),
      Bare(Array(<<GoodShared, NoType>>)),
      Bare(Array(<<NoAmount>>)),
      Bare(Array(<<GoodShared, TextAmount>>)) }

TransportFailure == [raised |-> TRUE, text |-> <<>>]
NoResponse == [raised |-> FALSE, text |-> <<>>]
Responses ==
    {TransportFailure} \cup {[raised |-> FALSE, text |-> t] : t \in ModelTexts}

(* ---------------- extract_text_from_pdf -------------------------------- *)
RECURSIVE TextLenFrom(_, _)
TextLenFrom(pages, i) ==
    IF i > Len(pages) THEN 0
    ELSE (IF pages[i] > 0 THEN pages[i] + 1 ELSE 0) + TextLenFrom(pages, i + 1)

extract_text_from_pdf(file) == TextLenFrom(file.pages, 1)

(* ---------------- analyze_with_ai -------------------------------------- *)
PyNone == [t |-> "None", rows |-> <<>>]

RECURSIVE LStrip(_)
LStrip(t) ==
    IF t # <<>> /\ t[1].tok = "ws" THEN LStrip(Tail(t)) ELSE t

RECURSIVE RStrip(_)
RStrip(t) ==
    IF t # <<>> /\ t[Len(t)].tok = "ws"
    THEN RStrip(SubSeq(t, 1, Len(t) - 1)) ELSE t

Strip(t) == RStrip(LStrip(t))

(* str.replace(old, ""): the opening marker of a json code block contains  *)
(* the bare fence, so removing the bare fence from it leaves the word json *)
(* behind.                                                                 *)
RECURSIVE Replace(_, _)
Replace(t, old) ==
    IF t = <<>> THEN <<>>
    ELSE IF t[1].tok = old THEN Replace(Tail(t), old)
    ELSE IF t[1].tok = "fence_json" /\ old = "fence"
         THEN <<Tok("json")>> \o Replace(Tail(t), old)
    ELSE <<t[1]>> \o Replace(Tail(t), old)

CleanJson(raw_text) == Replace(Replace(Strip(raw_text), "fence_json"), "fence")

JsonTypes == {"array", "object", "number", "null"}

JsonBody(clean) == SelectSeq(clean, LAMBDA k : k.tok # "ws")

JsonValid(clean) ==
    /\ Len(JsonBody(clean)) = 1
    /\ JsonBody(clean)[1].tok = "payload"
    /\ JsonBody(clean)[1].p.t \in JsonTypes

LoadAmount(a) ==
    IF a.k = "num" THEN [k |-> "num", f |-> FDivInt(a.c, 100)]
    ELSE [k |-> a.k, f |-> FZero]

LoadRecord(r) == [amount |-> LoadAmount(r.amount), type |-> r.type]

JsonLoads(clean) ==
    LET p == JsonBody(clean)[1].p
    IN  IF p.t = "null" THEN PyNone
        ELSE [t    |-> (IF p.t = "array" THEN "list"
                        ELSE IF p.t = "object" THEN "dict" ELSE "number"),
              rows |-> [i \in 1..Len(p.recs) |-> LoadRecord(p.recs[i])]]

Msg(s) == <<Tok(s)>>

ParseResponse(raw_text, clean_json) ==
    IF JsonValid(clean_json)
    THEN [data |-> JsonLoads(clean_json), debug_log |-> raw_text, called |-> TRUE]
    ELSE [data |-> PyNone, debug_log |-> Msg("str(e): JSONDecodeError"),
          called |-> TRUE]

analyze_with_ai(key, r) ==
    IF key = ""
    THEN [data |-> PyNone, debug_log |-> Msg("Missing API Key"), called |-> FALSE]
    ELSE IF r.raised
    THEN [data |-> PyNone, debug_log |-> Msg("str(e): generate_content"),
          called |-> TRUE]
    ELSE ParseResponse(r.text, CleanJson(r.text))

(* ---------------- dashboard: pd.DataFrame, metrics, grid, settlement --- *)
Truthy(d) ==
    \/ d.t = "list" /\ d.rows # <<>>
    \/ d.t \in {"dict", "number"}

(* pd.DataFrame(list of dicts): one row per dict, an absent key is NaN.    *)
DfAmount(a) == IF a.k = "missing" THEN [k |-> "nan", f |-> FZero] ELSE a
DfType(ty) == IF ty = "missing" THEN "nan" ELSE ty
DataFrame(d) ==
    [i \in 1..Len(d.rows) |->
        [amount |-> DfAmount(d.rows[i].amount), type |-> DfType(d.rows[i].type)]]

(* The exceptions lines 147-159 raise: the DataFrame constructor rejects a *)
(* dict of scalars and a bare scalar (ValueError); a column no record has  *)
(* is a KeyError; a column holding a string cannot be summed and formatted *)
(* as a number (TypeError / ValueError).                                   *)
FrameFault(d) ==
    \/ d.t # "list"
    \/ \A i \in 1..Len(d.rows) : d.rows[i].amount.k = "missing"
    \/ \E i \in 1..Len(d.rows) : d.rows[i].amount.k = "text"
    \/ \A i \in 1..Len(d.rows) : d.rows[i].type = "missing"

(* Series.sum(): left-to-right float addition from 0.0, NaN skipped.       *)
RECURSIVE SumFrom(_, _, _, _)
SumFrom(rows, i, only_shared, acc) ==
    IF i > Len(rows) THEN acc
    ELSE SumFrom(rows, i + 1, only_shared,
                 IF /\ rows[i].amount.k = "num"
                    /\ (only_shared => rows[i].type = "Shared")
                 THEN FAdd(acc, rows[i].amount.f) ELSE acc)

AmountSum(rows) == SumFrom(rows, 1, FALSE, FZero)
SharedSum(rows) == SumFrom(rows, 1, TRUE, FZero)

(* st.data_editor: the grid's edits are widget state kept under an         *)
(* identity derived from the frame it was given; a different frame starts  *)
(* a fresh grid.                                                           *)
NoEditor == [active |-> FALSE, base |-> <<>>, rows |-> <<>>]
data_editor(frame, ed) ==
    IF ed.active /\ ed.base = frame THEN ed.rows ELSE frame

Blank(o) ==
    [outcome |-> o, called |-> FALSE, data |-> PyNone, debug_log |-> <<>>,
     debugger_shown |-> FALSE, debugger |-> <<>>,
     df |-> <<>>, total_spend |-> FZero, shared_spend |-> FZero,
     private_spend |-> FZero, edited_df |-> <<>>, editor |-> NoEditor,
     split |-> DefaultSplit, final_shared |-> FZero, you_pay |-> FZero,
     partner_pay |-> FZero]

Settlement(base, final, you) ==
    [base EXCEPT !.final_shared = final, !.you_pay = you,
                 !.partner_pay = FSub(final, you)]

Grid(base, frame, edited, sp, final) ==
    Settlement([base EXCEPT
                  !.edited_df = edited,
                  !.editor = [active |-> TRUE, base |-> frame, rows |-> edited],
                  !.split = sp],
               final, FMul(FDivInt(sp, 100), final))

Metrics(base, frame, total, shared, ed, sp, edited) ==
    Grid([base EXCEPT
            !.outcome = "Settled", !.df = frame, !.total_spend = total,
            !.shared_spend = shared, !.private_spend = FSub(total, shared)],
         frame, edited, sp, SharedSum(edited))

Render(base, d, ed, sp, frame) ==
    Metrics(base, frame, AmountSum(frame), SharedSum(frame), ed, sp,
            data_editor(frame, ed))

Debugger(ai, shown) ==
    [Blank("ExtractFailed") EXCEPT
        !.called = ai.called, !.data = ai.data, !.debug_log = ai.debug_log,
        !.debugger_shown = shown,
        !.debugger = IF shown THEN ai.debug_log ELSE <<>>]

Branch(base, d, ed, sp) ==
    IF ~Truthy(d) THEN base
    ELSE IF FrameFault(d)
    THEN [base EXCEPT !.outcome = "Fault", !.editor = ed, !.split = sp]
    ELSE Render(base, d, ed, sp, DataFrame(d))

Dashboard(ai, dbg, ed, sp) ==
    Branch(Debugger(ai, dbg \/ ai.data = PyNone), ai.data, ed, sp)

(* Variant of the gate of line 126 that tests the upload alone.            *)
ProcessingGate_FileOnly(file, key) == file.present
ProcessingGate(file, key) == file.present /\ key # ""

(* Variant of the length test of line 131 with the threshold one lower.    *)
TextTooShort_OffByOne(n) == n < MinTextLen - 1
TextTooShort(n) == n < MinTextLen

(* One run of the script, top to bottom, on the current widget values; r   *)
(* is what generate_content does if this run reaches it.                   *)
Script(key, file, dbg, ed, sp, r) ==
    IF ProcessingGate(file, key)
    THEN IF TextTooShort(extract_text_from_pdf(file))
         THEN Blank("EmptyDocument")
         ELSE Dashboard(analyze_with_ai(key, r), dbg, ed, sp)
    ELSE IF key = "" THEN Blank("MissingCredential")
    ELSE Blank("AwaitingUpload")

(* ---------------- state ------------------------------------------------ *)
(* Widget values, kept by Streamlit between runs:                          *)
(*   api_key (52), show_debug (57), uploaded_file (122),                   *)
(*   editor: the grid's edits and the frame they belong to (168-176),      *)
(*   split (193).                                                          *)
(* What the latest run did and drew:                                       *)
(*   response: what generate_content did in that run (98-99),              *)
(*   called: whether that run reached generate_content (98),               *)
(*   generate_calls: generate_content calls since the current upload,      *)
(*   outcome: which branch the run ended in; "Fault" is an exception that  *)
(*     no except clause caught,                                            *)
(*   data, debug_log (135), debugger_shown, debugger (138-144),            *)
(*   df (147), total_spend, shared_spend, private_spend (153-155),         *)
(*   edited_df (168), final_shared, you_pay, partner_pay (197-199).        *)
VARIABLES api_key, show_debug, uploaded_file, editor, split,
          response, called, generate_calls,
          outcome, data, debug_log, debugger_shown, debugger,
          df, total_spend, shared_spend, private_spend,
          edited_df, final_shared, you_pay, partner_pay

vars == <<api_key, show_debug, uploaded_file, editor, split,
          response, called, generate_calls,
          outcome, data, debug_log, debugger_shown, debugger,
          df, total_spend, shared_spend, private_spend,
          edited_df, final_shared, you_pay, partner_pay>>

Shows(out, r, calls0) ==
    /\ editor' = out.editor
    /\ split' = out.split
    /\ response' = (IF out.called THEN r ELSE NoResponse)
    /\ called' = out.called
    /\ generate_calls' = calls0 + (IF out.called THEN 1 ELSE 0)
    /\ outcome' = out.outcome
    /\ data' = out.data
    /\ debug_log' = out.debug_log
    /\ debugger_shown' = out.debugger_shown
    /\ debugger' = out.debugger
    /\ df' = out.df
    /\ total_spend' = out.total_spend
    /\ shared_spend' = out.shared_spend
    /\ private_spend' = out.private_spend
    /\ edited_df' = out.edited_df
    /\ final_shared' = out.final_shared
    /\ you_pay' = out.you_pay
    /\ partner_pay' = out.partner_pay

(* Streamlit reruns the whole script after every widget interaction.       *)
Rerun(key, file, dbg, ed, sp, calls0) ==
    \E r \in Responses :
        \E out \in {Script(key, file, dbg, ed, sp, r)} :
            /\ out.called => calls0 < MaxCalls
            /\ api_key' = key
            /\ uploaded_file' = file
            /\ show_debug' = dbg
            /\ Shows(out, r, calls0)

Init ==
    /\ api_key = ""
    /\ show_debug = FALSE
    /\ uploaded_file = NoFile
    /\ editor = NoEditor
    /\ split = DefaultSplit
    /\ response = NoResponse
    /\ called = FALSE
    /\ generate_calls = 0
    /\ outcome = "MissingCredential"
    /\ data = PyNone
    /\ debug_log = <<>>
    /\ debugger_shown = FALSE
    /\ debugger = <<>>
    /\ df = <<>>
    /\ total_spend = FZero
    /\ shared_spend = FZero
    /\ private_spend = FZero
    /\ edited_df = <<>>
    /\ final_shared = FZero
    /\ you_pay = FZero
    /\ partner_pay = FZero

EnterApiKey ==
    \E k \in ApiKeys \ {api_key} :
        Rerun(k, uploaded_file, show_debug, editor, split, generate_calls)

UploadFile ==
    \E d \in Docs : Rerun(api_key, d, show_debug, editor, split, 0)

RemoveFile ==
    /\ uploaded_file.present
    /\ Rerun(api_key, NoFile, show_debug, editor, split, 0)

ToggleDebug ==
    Rerun(api_key, uploaded_file, ~show_debug, editor, split, generate_calls)

GridShown == outcome = "Settled"

EditAmount ==
    /\ GridShown
    /\ \E i \in 1..Len(editor.rows), c \in EditCents :
         LET cell == [k |-> "num", f |-> FDivInt(c, 100)]
         IN  /\ editor.rows[i].amount # cell
             /\ Rerun(api_key, uploaded_file, show_debug,
                      [editor EXCEPT !.rows[i].amount = cell],
                      split, generate_calls)

EditKind ==
    /\ GridShown
    /\ \E i \in 1..Len(editor.rows), kd \in Kinds :
         /\ editor.rows[i].type # kd
         /\ Rerun(api_key, uploaded_file, show_debug,
                  [editor EXCEPT !.rows[i].type = kd],
                  split, generate_calls)

BlankRow == [amount |-> [k |-> "nan", f |-> FZero], type |-> "nan"]

AddRow ==
    /\ GridShown
    /\ Len(editor.rows) < MaxRows
    /\ Rerun(api_key, uploaded_file, show_debug,
             [editor EXCEPT !.rows = Append(@, BlankRow)],
             split, generate_calls)

DeleteRow ==
    /\ GridShown
    /\ \E i \in 1..Len(editor.rows) :
         Rerun(api_key, uploaded_file, show_debug,
               [editor EXCEPT !.rows =
                   SubSeq(@, 1, i - 1) \o SubSeq(@, i + 1, Len(@))],
               split, generate_calls)

MoveSlider ==
    /\ GridShown
    /\ \E s \in SplitChoices \ {split} :
         Rerun(api_key, uploaded_file, show_debug, editor, s, generate_calls)

Next ==
    \/ EnterApiKey
    \/ UploadFile
    \/ RemoveFile
    \/ ToggleDebug
    \/ EditAmount
    \/ EditKind
    \/ AddRow
    \/ DeleteRow
    \/ MoveSlider

Spec == Init /\ [][Next]_vars

(* ======================= properties ==================================== *)
TextBelowThreshold ==
    uploaded_file.present /\ extract_text_from_pdf(uploaded_file) < MinTextLen

(* The payload of a response once whitespace and code fences are set       *)
(* aside, and whether it is a JSON array.                                  *)
ResponseBody(text) ==
    SelectSeq(text, LAMBDA k : k.tok \notin {"ws", "fence_json", "fence"})

IsArrayText(text) ==
    /\ Len(ResponseBody(text)) = 1
    /\ ResponseBody(text)[1].tok = "payload"
    /\ ResponseBody(text)[1].p.t = "array"

ModelAnswered == called /\ ~response.raised

(* C1, as stated: whenever the submitted document's extracted text is      *)
(* shorter than the minimum length, the run ends in EmptyDocument and      *)
(* generate was never invoked for that submission.                         *)
C1_EmptyDocumentAlways ==
    TextBelowThreshold =>
        (outcome = "EmptyDocument" /\ ~called /\ generate_calls = 0)

(* C1, amended: whenever the submitted document's extracted text is        *)
(* shorter than the minimum length, generate was never invoked for that    *)
(* submission; the run ends in EmptyDocument when a credential is present  *)
(* and in MissingCredential when it is not.                                *)
C1_EmptyDocumentWithCredential ==
    TextBelowThreshold =>
        /\ ~called
        /\ generate_calls = 0
        /\ (api_key # "" => outcome = "EmptyDocument")
        /\ (api_key = "" => outcome = "MissingCredential")

C1_Witness ==
    /\ TextBelowThreshold
    /\ extract_text_from_pdf(uploaded_file) = MinTextLen - 1
    /\ api_key # ""
    /\ outcome = "EmptyDocument"

(* C2: in every run made with an empty credential, generate is not invoked *)
(* and the outcome is MissingCredential, whatever the document is.         *)
C2_NoCallWithoutCredential ==
    api_key = "" => (~called /\ outcome = "MissingCredential")

C2_Witness ==
    /\ api_key = ""
    /\ uploaded_file.present
    /\ ~TextBelowThreshold
    /\ generate_calls > 0
    /\ outcome = "MissingCredential"

(* C3: every model response that is not a structurally valid array ends in *)
(* a parser failure (no data) shown as a failed extraction, never in an    *)
(* unhandled fault and never in an accepted extraction.                    *)
C3_NonArrayRejected ==
    (ModelAnswered /\ ~IsArrayText(response.text)) =>
        (data = PyNone /\ outcome = "ExtractFailed")

(* C4: when the model response fails structural parsing, the failure       *)
(* result and the diagnostics view carry the raw response text unchanged.  *)
C4_RawTextPreserved ==
    (ModelAnswered /\ ~JsonValid(CleanJson(response.text))) =>
        (debug_log = response.text /\ debugger_shown /\ debugger = response.text)

(* C5: generate is invoked at most once per document submission; no edit   *)
(* of the records and no change of the split causes another call.          *)
C5_SingleAttempt == generate_calls <= 1

(* C6: every presented aggregate equals the value computed from the        *)
(* current edited records and the current split.                           *)
C6_ViewNeverStale ==
    outcome = "Settled" =>
        /\ total_spend = AmountSum(edited_df)
        /\ shared_spend = SharedSum(edited_df)
        /\ private_spend = FSub(AmountSum(edited_df), SharedSum(edited_df))
        /\ you_pay = FMul(FDivInt(split, 100), SharedSum(edited_df))
        /\ partner_pay = FSub(SharedSum(edited_df), you_pay)

(* C7: every record of the working collection has a numeric amount and a   *)
(* kind that is exactly Shared or Private.                                 *)
C7_StoreRecordsValid ==
    outcome = "Settled" =>
        \A i \in 1..Len(edited_df) :
            edited_df[i].amount.k = "num" /\ edited_df[i].type \in Kinds

(* C8: no run ends in an unhandled fault.                                  *)
C8_NoUnhandledFault == outcome # "Fault"

(* C9: the two owed amounts add up to the shared spend, for every record   *)
(* collection and split; for the empty collection all three are 0.         *)
C9_OwedSumsToShared ==
    outcome = "Settled" =>
        /\ final_shared = SharedSum(edited_df)
        /\ FAdd(you_pay, partner_pay) = final_shared
        /\ (edited_df = <<>> =>
              (final_shared = FZero /\ you_pay = FZero /\ partner_pay = FZero))

(* C10: from a valid array holding at least one record with a parsable     *)
(* amount, the parser returns exactly the records with parsable amounts,   *)
(* in the order given.                                                     *)
ParsableAmounts(recs) ==
    SelectSeq([i \in 1..Len(recs) |-> recs[i].amount],
              LAMBDA a : a.k = "num")

C10_UnparsableAmountDroppedAlone ==
    (/\ ModelAnswered
     /\ IsArrayText(response.text)
     /\ ParsableAmounts(ResponseBody(response.text)[1].p.recs) # <<>>) =>
        /\ data.t = "list"
        /\ [i \in 1..Len(data.rows) |-> data.rows[i].amount]
             = [i \in 1..Len(ParsableAmounts(ResponseBody(response.text)[1].p.recs))
                  |-> LoadAmount(ParsableAmounts(ResponseBody(response.text)[1].p.recs)[i])]
====
